---- MODULE Spec2Model ----
(***************************************************************************)
(* Model of elasticapm/contrib/sanic/utils.py: the helpers that turn a     *)
(* Sanic request / response into the APM event payload (get_env,           *)
(* extract_header, get_request_info, get_response_info, _get_client_ip,    *)
(* make_client).                                                           *)
(*                                                                         *)
(* Representation of Python values                                         *)
(*   str      a sequence of one-character strings, <<"a", "b">>            *)
(*   bytes    a sequence of integers 0..255                                *)
(*   decoded  the result of bytes.decode("utf-8"): a sequence of Unicode   *)
(*            code points; the two body markers are written as code-point  *)
(*            sequences too, so that bodies and markers are comparable     *)
(*   dict     a function whose DOMAIN is the set of keys                   *)
(*   Optional None is <<>>, a present value v is <<v>>                     *)
(***************************************************************************)
EXTENDS Integers, Sequences, FiniteSets, TLC

VARIABLES config, request, response, skip_headers, defaults,
          op, outcome, result

vars == <<config, request, response, skip_headers, defaults, op, outcome, result>>

\* ------------------------------------------------------------------ bounds
\* Longest request / response body (in bytes) the model enumerates.
MaxBodyLen == 2
\* Longest skip_headers list the model enumerates.
MaxSkipLen == 2

\* ------------------------------------------------------- Python primitives
None == <<>>
Some(v) == <<v>>

\* The empty dict.
EmptyDict == [k \in {} |-> TRUE]

\* Python truthiness of an Optional[str]: None and "" are falsy.
TruthyStr(o) == o /= None /\ o[1] /= <<>>

\* Python truthiness of an Optional[int]: None and 0 are falsy.
TruthyInt(o) == o /= None /\ o[1] /= 0

\* Python truthiness of an Optional[list]: None and [] are falsy.
TruthyList(o) == o /= None /\ o[1] /= <<>>

\* s.startswith(prefix)
StartsWith(s, prefix) ==
    /\ Len(prefix) <= Len(s)
    /\ SubSeq(s, 1, Len(prefix)) = prefix

\* sub in s
Contains(s, sub) ==
    \E i \in 1..(Len(s) - Len(sub) + 1) : SubSeq(s, i, i + Len(sub) - 1) = sub

\* s.split(",")[0]: the text before the first comma, the whole text if none.
SplitFirst(s) ==
    LET commas == {i \in 1..Len(s) : s[i] = ","}
    IN  IF commas = {} THEN s
        ELSE SubSeq(s, 1, (CHOOSE i \in commas : \A j \in commas : i <= j) - 1)

Digit(d) == CASE d = 0 -> "0" [] d = 1 -> "1" [] d = 2 -> "2" [] d = 3 -> "3"
              [] d = 4 -> "4" [] d = 5 -> "5" [] d = 6 -> "6" [] d = 7 -> "7"
              [] d = 8 -> "8" [] d = 9 -> "9"

\* str(n) for a non-negative int, as f"{n}" formats it.
RECURSIVE IntToStr(_)
IntToStr(n) ==
    IF n < 10 THEN <<Digit(n)>>
    ELSE Append(IntToStr(n \div 10), Digit(n % 10))

\* f"{ip}:{port}"
FormatAddr(ip, port) == ip \o <<":">> \o IntToStr(port)

\* bytes.decode("utf-8"), strict: [ok |-> TRUE, text |-> code points] or
\* [ok |-> FALSE] where Python raises UnicodeDecodeError.
IsCont(b) == b >= 128 /\ b <= 191

RECURSIVE Utf8Decode(_)
Utf8Decode(bytes) ==
    IF bytes = <<>> THEN [ok |-> TRUE, text |-> <<>>]
    ELSE
      LET b1 == bytes[1]
          n  == Len(bytes)
          \* number of bytes of the sequence b1 leads, 0 if b1 cannot lead
          need == IF b1 <= 127 THEN 1
                  ELSE IF b1 >= 194 /\ b1 <= 223 THEN 2
                  ELSE IF b1 >= 224 /\ b1 <= 239 THEN 3
                  ELSE IF b1 >= 240 /\ b1 <= 244 THEN 4
                  ELSE 0
          wellFormed ==
              /\ need > 0
              /\ n >= need
              /\ \A i \in 2..need : IsCont(bytes[i])
              /\ (b1 = 224 => bytes[2] >= 160)     \* no overlong 3-byte form
              /\ (b1 = 237 => bytes[2] <= 159)     \* no surrogates
              /\ (b1 = 240 => bytes[2] >= 144)     \* no overlong 4-byte form
              /\ (b1 = 244 => bytes[2] <= 143)     \* at most U+10FFFF
          cp == CASE need = 1 -> b1
                  [] need = 2 -> (b1 - 192) * 64 + (bytes[2] - 128)
                  [] need = 3 -> (b1 - 224) * 4096 + (bytes[2] - 128) * 64
                                   + (bytes[3] - 128)
                  [] need = 4 -> (b1 - 240) * 262144 + (bytes[2] - 128) * 4096
                                   + (bytes[3] - 128) * 64 + (bytes[4] - 128)
      IN  IF ~wellFormed THEN [ok |-> FALSE]
          ELSE LET rest == Utf8Decode(SubSeq(bytes, need + 1, n))
               IN  IF rest.ok THEN [ok |-> TRUE, text |-> <<cp>> \o rest.text]
                   ELSE [ok |-> FALSE]

\* ------------------------------------------------------- program constants
\* The body markers, as code points.
REDACTED  == <<91, 82, 69, 68, 65, 67, 84, 69, 68, 93>>          \* "[REDACTED]"
DISCARDED == <<91, 68, 73, 83, 67, 65, 82, 68, 69, 68, 93>>      \* "[DISCARDED]"

\* The literals the content type is tested against.
MULTIPART    == <<"m", "u", "l", "t", "i", "p", "a", "r", "t">>
OCTET_STREAM == <<"o", "c", "t", "e", "t", "-", "s", "t", "r", "e", "a", "m">>

\* elasticapm.conf.constants.HTTP_WITH_BODY: the body-bearing methods.
HTTP_WITH_BODY == {"POST", "PUT", "PATCH", "DELETE"}

\* sanic.__version__, whatever the installed Sanic reports.
version == "sanic.__version__"

\* ------------------------------------------------------------ dict helpers
\* dict(d): a new dict with d's entries.
DictCopy(d) == [k \in DOMAIN d |-> d[k]]

\* d.pop(k, None): d without key k; no error when k is not a key.
Pop(d, k) == [x \in (DOMAIN d) \ {k} |-> d[x]]

\* d.update(other): other's entries win.
DictUpdate(d, other) ==
    [k \in (DOMAIN d) \cup (DOMAIN other) |->
        IF k \in DOMAIN other THEN other[k] ELSE d[k]]

\* dict(pairs) for a sequence of (key, value) pairs: the last pair of a key wins.
DictOfPairs(pairs) ==
    [k \in {pairs[i][1] : i \in DOMAIN pairs} |->
        pairs[CHOOSE i \in DOMAIN pairs :
                 /\ pairs[i][1] = k
                 /\ \A j \in DOMAIN pairs : pairs[j][1] = k => j <= i][2]]

\* ------------------------------------------------------------------ get_env
ENV_ATTRS == <<"server_name", "server_port", "version">>

\* hasattr(request, attr): request.attrs holds the attributes the object has.
HasAttr(req, attr) == attr \in DOMAIN req.attrs

\* The (name, value) pairs get_env yields, in the order of ENV_ATTRS.
get_env(req) ==
    LET present == SelectSeq(ENV_ATTRS, LAMBDA a : HasAttr(req, a))
    IN  [i \in 1..Len(present) |-> <<present[i], req.attrs[present[i]]>>]

\* ----------------------------------------------------------- extract_header
\* The loop `for _header in skip_headers: header.pop(_header, None)`.
RECURSIVE PopAll(_, _)
PopAll(header, names) ==
    IF names = <<>> THEN header
    ELSE PopAll(Pop(header, Head(names)), Tail(names))

\* Mutant: the pops act on entity.headers itself (the dict() copy is missing).
extract_header_aliased(entity, skip) ==
    LET header == entity.headers
        out    == IF TruthyList(skip) THEN PopAll(header, skip[1]) ELSE header
    IN  [ret |-> out, entity |-> [entity EXCEPT !.headers = out]]

\* Mutant: the skip list is ignored.
extract_header_noskip(entity, skip) ==
    [ret |-> DictCopy(entity.headers), entity |-> entity]

\* ret is the returned dict, entity the entity as the call leaves it.
extract_header(entity, skip) ==
    LET header == DictCopy(entity.headers)
        out    == IF TruthyList(skip) THEN PopAll(header, skip[1]) ELSE header
    IN  [ret |-> out, entity |-> entity]

\* ----------------------------------------------------------- _get_client_ip
NoSocket == <<None, None>>

\* Mutant: the ip / port attributes are tried before the socket pair.
get_client_ip_swapped(req) ==
    LET x_forwarded_for == req.forwarded
    IN  IF TruthyStr(x_forwarded_for) THEN Some(SplitFirst(x_forwarded_for[1]))
        ELSE IF TruthyStr(req.ip) /\ TruthyInt(req.port)
             THEN Some(FormatAddr(req.ip[1], req.port[1]))
        ELSE IF req.socket /= NoSocket
             THEN Some(FormatAddr(req.socket[1][1], req.socket[2][1]))
        ELSE req.remote_addr

\* The returned address: Some(str), or None when remote_addr is None.
get_client_ip(req) ==
    LET x_forwarded_for == req.forwarded
    IN  IF TruthyStr(x_forwarded_for) THEN Some(SplitFirst(x_forwarded_for[1]))
        ELSE IF req.socket /= NoSocket
             THEN Some(FormatAddr(req.socket[1][1], req.socket[2][1]))
        ELSE IF TruthyStr(req.ip) /\ TruthyInt(req.port)
             THEN Some(FormatAddr(req.ip[1], req.port[1]))
        ELSE req.remote_addr

\* ------------------------------------------------------------- result dicts
\* result[key] = value
SetKey(d, key, value) ==
    [k \in (DOMAIN d) \cup {key} |-> IF k = key THEN value ELSE d[k]]

\* elasticapm.utils.get_url_dict: the structured breakdown of the URL, kept
\* here as the URL it was computed from.
get_url_dict(url) == [full |-> url]

\* isinstance(status, compat.integer_types)
IsInteger(status) == status.type = "int"

\* --------------------------------------------------------- get_request_info
\* The content-type test of the body branch.
IsDiscardedType(content_type) ==
    StartsWith(content_type, MULTIPART) \/ Contains(content_type, OCTET_STREAM)

\* Mutant: only POST counts as a body-bearing method.
request_body_post_only(cfg, req, res) ==
    IF req.method = "POST" /\ cfg.capture_body
    THEN LET marked  == IF IsDiscardedType(req.content_type)
                        THEN SetKey(res, "body", DISCARDED) ELSE res
             decoded == Utf8Decode(req.body)
         IN  IF decoded.ok THEN SetKey(marked, "body", decoded.text) ELSE marked
    ELSE res

\* Mutant: the body is decoded with errors="ignore", so a failure yields "".
request_body_ignore_errors(cfg, req, res) ==
    IF req.method \in HTTP_WITH_BODY /\ cfg.capture_body
    THEN LET marked  == IF IsDiscardedType(req.content_type)
                        THEN SetKey(res, "body", DISCARDED) ELSE res
             decoded == Utf8Decode(req.body)
         IN  IF decoded.ok THEN SetKey(marked, "body", decoded.text)
             ELSE SetKey(marked, "body", <<>>)
    ELSE res

\* The body branch: the marker for multipart / octet-stream, then the decode
\* attempt, which runs whatever the content type was and whose failure is
\* swallowed.
request_body(cfg, req, res) ==
    IF req.method \in HTTP_WITH_BODY /\ cfg.capture_body
    THEN LET marked  == IF IsDiscardedType(req.content_type)
                        THEN SetKey(res, "body", DISCARDED) ELSE res
             decoded == Utf8Decode(req.body)
         IN  IF decoded.ok THEN SetKey(marked, "body", decoded.text) ELSE marked
    ELSE res

\* Mutant: the default is missing.
default_body_missing(res) == res

\* `if "body" not in result: result["body"] = "[REDACTED]"`
default_body(res) ==
    IF "body" \notin DOMAIN res THEN SetKey(res, "body", REDACTED) ELSE res

\* The call: its outcome, the returned dict and the request as the call leaves it.
get_request_info(cfg, req, skip) ==
    LET env     == DictUpdate(DictOfPairs(get_env(req)), DictCopy(req.app_config))
        base    == [env     |-> env,
                    method  |-> req.method,
                    socket  |-> [remote_address |-> get_client_ip(req),
                                 encrypted      |-> req.scheme \in {"https", "wss"}],
                    cookies |-> req.cookies]
        hdr     == extract_header(req, skip)
        withHdr == IF cfg.capture_headers THEN SetKey(base, "headers", hdr.ret)
                   ELSE base
        req1    == IF cfg.capture_headers THEN hdr.entity ELSE req
        withBdy == default_body(request_body(cfg, req1, withHdr))
    IN  [outcome |-> "returned",
         result  |-> SetKey(withBdy, "url", get_url_dict(req1.url)),
         request |-> req1]

\* -------------------------------------------------------- get_response_info
\* Mutant: `or` for `and` in the capture test.
response_body_or(cfg, resp) ==
    IF cfg.capture_body \/ ~Contains(resp.content_type, OCTET_STREAM)
    THEN LET decoded == Utf8Decode(resp.body)
         IN  IF decoded.ok THEN [raised |-> FALSE, body |-> decoded.text]
             ELSE [raised |-> TRUE]
    ELSE [raised |-> FALSE, body |-> REDACTED]

\* The body branch: the decode is not guarded, so its failure is raised.
response_body(cfg, resp) ==
    IF cfg.capture_body /\ ~Contains(resp.content_type, OCTET_STREAM)
    THEN LET decoded == Utf8Decode(resp.body)
         IN  IF decoded.ok THEN [raised |-> FALSE, body |-> decoded.text]
             ELSE [raised |-> TRUE]
    ELSE [raised |-> FALSE, body |-> REDACTED]

\* The call: its outcome, the returned dict (or the exception) and the response
\* as the call leaves it.
get_response_info(cfg, resp, skip) ==
    LET base    == [cookies |-> resp.cookies]
        withSt  == IF IsInteger(resp.status)
                   THEN SetKey(base, "status_code", resp.status.value) ELSE base
        hdr     == extract_header(resp, skip)
        withHdr == IF cfg.capture_headers THEN SetKey(withSt, "headers", hdr.ret)
                   ELSE withSt
        resp1   == IF cfg.capture_headers THEN hdr.entity ELSE resp
        body    == response_body(cfg, resp1)
    IN  IF body.raised
        THEN [outcome  |-> "raised",
              result   |-> [exception |-> "UnicodeDecodeError"],
              response |-> resp1]
        ELSE [outcome  |-> "returned",
              result   |-> SetKey(withHdr, "body", body.body),
              response |-> resp1]

\* -------------------------------------------------------------- make_client
\* Mutant: the framework defaults are set unconditionally.
make_client_always(client_config, kwargs) ==
    [config |-> client_config,
     kwargs |-> SetKey(SetKey(kwargs, "framework_name", "sanic"),
                       "framework_version", version)]

\* What client_cls is called with: the config and the keyword arguments.
make_client(client_config, kwargs) ==
    LET filled == IF "framework_name" \notin DOMAIN kwargs
                  THEN SetKey(SetKey(kwargs, "framework_name", "sanic"),
                              "framework_version", version)
                  ELSE kwargs
    IN  [config |-> client_config, kwargs |-> filled]

\* ------------------------------------------------------------------- inputs
\* Content types.
CT_FORM   == <<"m", "u", "l", "t", "i", "p", "a", "r", "t", "/", "f", "o", "r", "m", "-", "d", "a", "t", "a">>   \* "multipart/form-data"
CT_BINARY == <<"a", "p", "p", "l", "i", "c", "a", "t", "i", "o", "n", "/", "o", "c", "t", "e", "t", "-", "s", "t", "r", "e", "a", "m">>   \* "application/octet-stream"
CT_TEXT   == <<"t", "e", "x", "t", "/", "p", "l", "a", "i", "n">>   \* "text/plain"
CT_XMULTI == <<"x", "-", "m", "u", "l", "t", "i", "p", "a", "r", "t", "/", "m", "i", "x", "e", "d">>   \* "x-multipart/mixed"

\* Addresses.
FWD_CHAIN == <<"1", ".", "2", ".", "3", ".", "4", ",", " ", "5", ".", "6", ".", "7", ".", "8">>   \* "1.2.3.4, 5.6.7.8"
FWD_EMPTY_FIRST == <<",", "5", ".", "6", ".", "7", ".", "8">>   \* ",5.6.7.8"
IP_SOCKET == <<"9", ".", "9", ".", "9", ".", "9">>   \* "9.9.9.9"
IP_ATTR   == <<"7", ".", "7", ".", "7", ".", "7">>   \* "7.7.7.7"
IP_REMOTE == <<"6", ".", "6", ".", "6", ".", "6">>   \* "6.6.6.6"

\* Body bytes: 'A', a lone continuation byte, an overlong lead, the lead of a
\* two-byte sequence (C3 80 is U+00C0) and a byte no UTF-8 text contains.
BodyBytes == {65, 128, 192, 195, 255}
Bodies == UNION {[1..n -> BodyBytes] : n \in 0..MaxBodyLen}

Dicts(keys, values) == UNION {[ks -> values] : ks \in SUBSET keys}

HeaderNames == {"authorization", "accept"}
HeaderDicts == Dicts(HeaderNames, {"v"})

\* skip_headers: None, or a list of names, one of them no header of any entity.
SkipNames == HeaderNames \cup {"x-missing"}
SkipLists == {None} \cup
             {Some(l) : l \in UNION {[1..n -> SkipNames] : n \in 0..MaxSkipLen}}

Configs == [capture_headers : BOOLEAN, capture_body : BOOLEAN]

DefaultConfig == [capture_headers |-> TRUE, capture_body |-> TRUE]

DefaultRequest ==
    [method       |-> "POST",
     content_type |-> CT_TEXT,
     body         |-> <<65>>,
     headers      |-> [k \in HeaderNames |-> "v"],
     cookies      |-> [k \in {"session"} |-> "c"],
     scheme       |-> "http",
     url          |-> "http://localhost/path",
     forwarded    |-> None,
     socket       |-> <<Some(IP_SOCKET), Some(80)>>,
     ip           |-> Some(IP_SOCKET),
     port         |-> Some(80),
     remote_addr  |-> Some(IP_REMOTE),
     attrs        |-> [k \in {"server_name", "server_port"} |-> "a"],
     app_config   |-> [k \in {"DEBUG"} |-> "cfg"]]

DefaultResponse ==
    [cookies      |-> EmptyDict,
     status       |-> [type |-> "int", value |-> 200],
     headers      |-> [k \in {"accept"} |-> "v"],
     content_type |-> CT_TEXT,
     body         |-> <<65>>]

DefaultScenario ==
    [config       |-> DefaultConfig,
     request      |-> DefaultRequest,
     response     |-> DefaultResponse,
     skip_headers |-> None,
     defaults     |-> EmptyDict]

\* Requests that differ in what the body branch reads.
BodyRequests ==
    {[DefaultRequest EXCEPT !.method = m, !.content_type = ct, !.body = b] :
        m \in {"GET", "POST", "PUT"},
        ct \in {CT_FORM, CT_BINARY, CT_TEXT, CT_XMULTI},
        b \in Bodies}

\* Responses that differ in what the body branch and the status test read.
BodyResponses ==
    {[DefaultResponse EXCEPT !.content_type = ct, !.body = b, !.status = st] :
        ct \in {CT_BINARY, CT_TEXT, CT_FORM},
        b \in Bodies,
        st \in {[type |-> "int", value |-> 200], [type |-> "str", value |-> 200]}}

\* Requests that differ in what _get_client_ip reads. The socket pair is the
\* peer name of the transport: both parts, or the (None, None) sentinel.
AddrRequests ==
    {[DefaultRequest EXCEPT !.forwarded = f, !.socket = s, !.ip = i, !.port = p,
                            !.remote_addr = r] :
        f \in {None, Some(<<>>), Some(FWD_CHAIN), Some(FWD_EMPTY_FIRST)},
        s \in {NoSocket, <<Some(IP_SOCKET), Some(80)>>},
        i \in {None, Some(<<>>), Some(IP_ATTR)},
        p \in {None, Some(0), Some(8080)},
        r \in {None, Some(<<>>), Some(IP_REMOTE)}}

\* Requests that differ in what get_env and the rest of the result read.
EnvRequests ==
    {[DefaultRequest EXCEPT !.attrs = a, !.app_config = c, !.scheme = sc,
                            !.cookies = ck] :
        a \in Dicts({"server_name", "server_port", "version"}, {"a"}),
        c \in {EmptyDict, [k \in {"DEBUG"} |-> "cfg"], [k \in {"version"} |-> "cfg"]},
        sc \in {"http", "https", "wss"},
        ck \in {EmptyDict, [k \in {"session"} |-> "c"]}}

\* The keyword defaults a caller of make_client may pass.
ClientDefaults ==
    Dicts({"framework_name", "framework_version", "service_name"}, {"mine"})

\* The calls the model starts from: each family varies the inputs of one part
\* of the code over every capture setting, the rest held at the default.
Scenarios ==
    {[DefaultScenario EXCEPT !.config = c, !.request = r] :
        c \in Configs, r \in BodyRequests}
    \cup
    {[DefaultScenario EXCEPT !.config = c, !.response = r] :
        c \in Configs, r \in BodyResponses}
    \cup
    {[DefaultScenario EXCEPT !.config = c, !.request.headers = h1,
                             !.response.headers = h2, !.skip_headers = sk] :
        c \in Configs, h1 \in HeaderDicts, h2 \in HeaderDicts, sk \in SkipLists}
    \cup
    {[DefaultScenario EXCEPT !.config = c, !.request = r] :
        c \in Configs, r \in AddrRequests \cup EnvRequests}
    \cup
    {[DefaultScenario EXCEPT !.defaults = d] : d \in ClientDefaults}

\* ------------------------------------------------------------ specification
Init ==
    /\ \E s \in Scenarios :
          /\ config = s.config
          /\ request = s.request
          /\ response = s.response
          /\ skip_headers = s.skip_headers
          /\ defaults = s.defaults
    /\ op = "none"
    /\ outcome = "none"
    /\ result = EmptyDict

\* list(get_env(request))
CallGetEnv ==
    /\ op' = "get_env"
    /\ outcome' = "returned"
    /\ result' = get_env(request)
    /\ UNCHANGED <<config, request, response, skip_headers, defaults>>

\* extract_header(request, skip_headers)
CallExtractHeaderRequest ==
    LET r == extract_header(request, skip_headers)
    IN  /\ op' = "extract_header(request)"
        /\ outcome' = "returned"
        /\ result' = r.ret
        /\ request' = r.entity
        /\ UNCHANGED <<config, response, skip_headers, defaults>>

\* extract_header(response, skip_headers)
CallExtractHeaderResponse ==
    LET r == extract_header(response, skip_headers)
    IN  /\ op' = "extract_header(response)"
        /\ outcome' = "returned"
        /\ result' = r.ret
        /\ response' = r.entity
        /\ UNCHANGED <<config, request, skip_headers, defaults>>

\* _get_client_ip(request)
CallGetClientIp ==
    /\ op' = "_get_client_ip"
    /\ outcome' = "returned"
    /\ result' = get_client_ip(request)
    /\ UNCHANGED <<config, request, response, skip_headers, defaults>>

\* await get_request_info(config, request, skip_headers)
CallGetRequestInfo ==
    LET r == get_request_info(config, request, skip_headers)
    IN  /\ op' = "get_request_info"
        /\ outcome' = r.outcome
        /\ result' = r.result
        /\ request' = r.request
        /\ UNCHANGED <<config, response, skip_headers, defaults>>

\* await get_response_info(config, response, skip_headers)
CallGetResponseInfo ==
    LET r == get_response_info(config, response, skip_headers)
    IN  /\ op' = "get_response_info"
        /\ outcome' = r.outcome
        /\ result' = r.result
        /\ response' = r.response
        /\ UNCHANGED <<config, request, skip_headers, defaults>>

\* make_client(client_config, client_cls, **defaults), client_cls recording
\* what it is called with.
CallMakeClient ==
    \E client_config \in {EmptyDict, [k \in {"SERVICE_NAME"} |-> "svc"]} :
        /\ op' = "make_client"
        /\ outcome' = "returned"
        /\ result' = make_client(client_config, defaults)
        /\ UNCHANGED <<config, request, response, skip_headers, defaults>>

Next ==
    \/ CallGetEnv
    \/ CallExtractHeaderRequest
    \/ CallExtractHeaderResponse
    \/ CallGetClientIp
    \/ CallGetRequestInfo
    \/ CallGetResponseInfo
    \/ CallMakeClient

Spec == Init /\ [][Next]_vars

\* ------------------------------------------------------------------- claims
\* The last call was get_request_info / get_response_info and it returned.
RequestInfoReturned  == op = "get_request_info" /\ outcome = "returned"
ResponseInfoReturned == op = "get_response_info" /\ outcome = "returned"

\* The last call returned a dict whose body is b.
BodyIs(b) == outcome = "returned" /\ "body" \in DOMAIN result /\ result["body"] = b

\* C1: a request of a body-bearing method whose content type starts with
\* "multipart" or contains "octet-stream", with body capture enabled, gets
\* body == "[DISCARDED]", whatever its body bytes are.
C1_BinaryTypeDiscarded ==
    (/\ op = "get_request_info"
     /\ config.capture_body
     /\ request.method \in HTTP_WITH_BODY
     /\ IsDiscardedType(request.content_type))
    => BodyIs(DISCARDED)

\* C2 as stated: a valid UTF-8 body, body capture enabled and a content type
\* that is neither multipart nor octet-stream give body == the decoded string,
\* for every HTTP method.
C2_DecodedForEveryMethod ==
    (/\ op = "get_request_info"
     /\ config.capture_body
     /\ ~IsDiscardedType(request.content_type)
     /\ Utf8Decode(request.body).ok)
    => BodyIs(Utf8Decode(request.body).text)

\* C2 amended: the same, for the methods of HTTP_WITH_BODY.
C2_DecodedForBodyMethods ==
    (/\ op = "get_request_info"
     /\ config.capture_body
     /\ request.method \in HTTP_WITH_BODY
     /\ ~IsDiscardedType(request.content_type)
     /\ Utf8Decode(request.body).ok)
    => BodyIs(Utf8Decode(request.body).text)

\* A PUT request whose body holds a two-byte character has been decoded.
C2_Witness ==
    /\ op = "get_request_info"
    /\ config.capture_body
    /\ request.method = "PUT"
    /\ request.content_type = CT_TEXT
    /\ request.body = <<195, 128>>
    /\ BodyIs(<<192>>)

\* C3: get_response_info returns, with body == "[REDACTED]", when body capture
\* is enabled, the content type does not contain "octet-stream" and the body
\* is not valid UTF-8.
C3_ResponseDecodeFailureRedacted ==
    (/\ op = "get_response_info"
     /\ config.capture_body
     /\ ~Contains(response.content_type, OCTET_STREAM)
     /\ ~Utf8Decode(response.body).ok)
    => BodyIs(REDACTED)

\* C4: a request of a body-bearing method, body capture enabled, a content
\* type neither multipart nor octet-stream and a body that is not valid UTF-8:
\* get_request_info returns, with body == "[REDACTED]".
C4_RequestDecodeFailureRedacted ==
    (/\ op = "get_request_info"
     /\ config.capture_body
     /\ request.method \in HTTP_WITH_BODY
     /\ ~IsDiscardedType(request.content_type)
     /\ ~Utf8Decode(request.body).ok)
    => BodyIs(REDACTED)

\* A POST of a truncated two-byte sequence came back redacted.
C4_Witness ==
    /\ op = "get_request_info"
    /\ config.capture_body
    /\ request.method = "POST"
    /\ request.content_type = CT_TEXT
    /\ request.body = <<65, 195>>
    /\ BodyIs(REDACTED)

\* C5: with body capture disabled, get_request_info and get_response_info
\* return body == "[REDACTED]", whatever the method, content type and body.
C5_CaptureOffRedacted ==
    (op \in {"get_request_info", "get_response_info"} /\ ~config.capture_body)
    => BodyIs(REDACTED)

\* Capture is off and a decodable text response came back redacted.
C5_Witness ==
    /\ ~config.capture_body
    /\ op = "get_response_info"
    /\ response.content_type = CT_TEXT
    /\ response.body = <<65, 65>>
    /\ BodyIs(REDACTED)

\* The address the last call resolved.
ResolvedAddress ==
    IF op = "_get_client_ip" THEN result ELSE result["socket"].remote_address

\* C6: the client address is the first comma-separated value of forwarded if
\* that is present; else "ip:port" of the socket pair unless it is (None,
\* None); else "ip:port" of the ip and port attributes if both are present;
\* else remote_addr. No step with an absent or empty input builds the result:
\* the three conditional steps are taken only on a present input, and the last
\* one hands remote_addr on as it is.
C6_FallbackChain ==
    (op \in {"_get_client_ip", "get_request_info"}) =>
    LET fwd      == TruthyStr(request.forwarded)
        sock     == request.socket /= NoSocket
        attrs    == TruthyStr(request.ip) /\ TruthyInt(request.port)
        addr     == ResolvedAddress
    IN  /\ fwd => addr = Some(SplitFirst(request.forwarded[1]))
        /\ (~fwd /\ sock) =>
              addr = Some(request.socket[1][1] \o <<":">>
                          \o IntToStr(request.socket[2][1]))
        /\ (~fwd /\ ~sock /\ attrs) =>
              addr = Some(request.ip[1] \o <<":">> \o IntToStr(request.port[1]))
        /\ (~fwd /\ ~sock /\ ~attrs) => addr = request.remote_addr
        \* the three cases the specification works out
        /\ request.forwarded = Some(FWD_CHAIN) =>
              addr = Some(<<"1", ".", "2", ".", "3", ".", "4">>)
        /\ (~fwd /\ request.socket = <<Some(IP_SOCKET), Some(80)>>) =>
              addr = Some(<<"9", ".", "9", ".", "9", ".", "9", ":", "8", "0">>)
        /\ (~fwd /\ ~sock /\ request.ip = Some(IP_ATTR)
                /\ request.port = Some(8080)) =>
              addr = Some(<<"7", ".", "7", ".", "7", ".", "7", ":",
                            "8", "0", "8", "0">>)

\* The third step was reached: an empty forwarded value, the socket sentinel,
\* and the address built from the ip and port attributes.
C6_Witness ==
    /\ op = "_get_client_ip"
    /\ request.forwarded = Some(<<>>)
    /\ request.socket = NoSocket
    /\ request.remote_addr = Some(IP_REMOTE)
    /\ result = Some(<<"7", ".", "7", ".", "7", ".", "7", ":", "8", "0", "8", "0">>)

\* The names a skip list removes.
Skipped(skip) == IF skip = None THEN {} ELSE {skip[1][i] : i \in DOMAIN skip[1]}

\* d is entity's headers without the names of the skip list.
FilteredHeaders(d, entity, skip) ==
    /\ DOMAIN d = (DOMAIN entity.headers) \ Skipped(skip)
    /\ \A k \in DOMAIN d : d[k] = entity.headers[k]

\* C7: the results of get_request_info and get_response_info hold the headers
\* key iff capture_headers is true; it then holds the entity's headers minus
\* the names of the skip list, and a skip-list name that is no header of the
\* entity raises nothing and removes nothing.
C7_HeadersIffCaptured ==
    /\ RequestInfoReturned =>
          /\ ("headers" \in DOMAIN result) <=> config.capture_headers
          /\ config.capture_headers =>
                FilteredHeaders(result["headers"], request, skip_headers)
    /\ ResponseInfoReturned =>
          /\ ("headers" \in DOMAIN result) <=> config.capture_headers
          /\ config.capture_headers =>
                FilteredHeaders(result["headers"], response, skip_headers)
    /\ op = "extract_header(request)" =>
          outcome = "returned" /\ FilteredHeaders(result, request, skip_headers)
    /\ op = "extract_header(response)" =>
          outcome = "returned" /\ FilteredHeaders(result, response, skip_headers)

\* A skip list naming a header of the request and a name that is none of its
\* headers: the first is gone from the result, the other header is kept.
C7_Witness ==
    /\ RequestInfoReturned
    /\ config.capture_headers
    /\ skip_headers = Some(<<"x-missing", "authorization">>)
    /\ DOMAIN request.headers = {"authorization", "accept"}
    /\ DOMAIN result["headers"] = {"accept"}

\* C8: every result of get_request_info holds body, which is the decoded
\* request body, "[DISCARDED]" or "[REDACTED]"; every result of
\* get_response_info holds body, the decoded response body or "[REDACTED]".
C8_BodyAlwaysPresent ==
    /\ op = "get_request_info" =>
          /\ outcome = "returned"
          /\ "body" \in DOMAIN result
          /\ \/ result["body"] = DISCARDED
             \/ result["body"] = REDACTED
             \/ /\ Utf8Decode(request.body).ok
                /\ result["body"] = Utf8Decode(request.body).text
    /\ ResponseInfoReturned =>
          /\ "body" \in DOMAIN result
          /\ \/ result["body"] = REDACTED
             \/ /\ Utf8Decode(response.body).ok
                /\ result["body"] = Utf8Decode(response.body).text

\* The discarded marker is a form the body does take.
C8_Witness ==
    /\ op = "get_request_info"
    /\ request.content_type = CT_FORM
    /\ BodyIs(DISCARDED)

\* C9: no call changes the request, the response, the config or the skip list
\* it was given: headers, cookies and the application's config hold the same
\* entries after the call as before it.
C9_ObjectsUnchanged ==
    [][/\ request' = request
       /\ response' = response
       /\ config' = config
       /\ skip_headers' = skip_headers]_vars

\* extract_header ran with a skip list naming a header of the request, and
\* the request still has that header.
C9_Witness ==
    /\ op = "extract_header(request)"
    /\ skip_headers /= None
    /\ \E i \in DOMAIN skip_headers[1] :
          /\ skip_headers[1][i] \in DOMAIN request.headers
          /\ skip_headers[1][i] \notin DOMAIN result

\* C10 as stated: every framework_name or framework_version the caller passed
\* reaches the client class unchanged; "sanic" and the sanic version are
\* filled in only for the values the caller did not pass.
C10_NeverOverwrites ==
    op = "make_client" =>
    \A k \in {"framework_name", "framework_version"} \cap DOMAIN defaults :
        result.kwargs[k] = defaults[k]

\* C10 amended: a framework_name the caller passed reaches the client class
\* unchanged, and with it every other default; without it framework_name is
\* "sanic" and framework_version the sanic version, in place of a
\* framework_version the caller passed, and the other defaults are unchanged.
C10_FrameworkDefaults ==
    op = "make_client" =>
    IF "framework_name" \in DOMAIN defaults
    THEN result.kwargs = defaults
    ELSE /\ DOMAIN result.kwargs =
               (DOMAIN defaults) \cup {"framework_name", "framework_version"}
         /\ result.kwargs["framework_name"] = "sanic"
         /\ result.kwargs["framework_version"] = version
         /\ \A k \in (DOMAIN defaults) \ {"framework_version"} :
               result.kwargs[k] = defaults[k]

\* The caller passed its own framework_name and framework_version, and both
\* reached the client class.
C10_Witness ==
    /\ op = "make_client"
    /\ {"framework_name", "framework_version"} \subseteq DOMAIN defaults
    /\ result.kwargs["framework_name"] = "mine"
    /\ result.kwargs["framework_version"] = "mine"

====
